---- MODULE Spec2Model ----
(***************************************************************************)
(* Model of the RAGON MCP gateway (src/mcp_server.py) and of the part of   *)
(* the retrieval collaborator (src/ragon_core.py) the gateway depends on.  *)
(*                                                                         *)
(* The server is one asyncio event loop.  Every action below is one        *)
(* uninterrupted run of a coroutine between two suspension points:         *)
(*   - handle_sse up to the return of the StreamingResponse,               *)
(*   - one resumption of event_generator,                                  *)
(*   - handle_messages before and after await request.json(),              *)
(*   - process_rpc_request from start to end: the collaborator call is a   *)
(*     plain synchronous call and put() on an unbounded asyncio.Queue      *)
(*     never suspends, so the task has no suspension point at all.         *)
(***************************************************************************)
EXTENDS Integers, Sequences, FiniteSets, TLC

\* Bounds of the model.
MaxSessions == 2        \* GET /sse connections opened in one behaviour
MaxPosts == 2           \* POST /messages requests made in one behaviour

\* query_params.get("session_id") when the parameter is missing (or empty).
NoSessionId == 0

(***************************************************************************)
(* JSON values as Python sees them after request.json().                   *)
(***************************************************************************)
None == [t |-> "null"]
JStr(s) == [t |-> "str", v |-> s]
JObj(f) == [t |-> "obj", v |-> f]
EmptyDict == JObj(<<>>)

IsDict(d) == d.t = "obj"

\* dict.get(key, default)
Get(d, key, default) == IF key \in DOMAIN d.v THEN d.v[key] ELSE default

\* list[:n]
Take(s, n) == SubSeq(s, 1, IF Len(s) < n THEN Len(s) ELSE n)

\* json.dumps(data): the text of the frame's data line.
JsonDumps(data) == [json |-> data]

(***************************************************************************)
(* The retrieval collaborator, src/ragon_core.py.                          *)
(* A backend state is chosen for every call:                               *)
(*   "up"           embedding service and search backend answer            *)
(*   "unreachable"  every embedding / hybrid_search call raises            *)
(*   "unconfigured" SUPABASE_URL / key missing from the environment        *)
(*   "hung"         a network call never returns                           *)
(***************************************************************************)
Backends == {"up", "unreachable", "unconfigured", "hung"}

\* query_text.split("||") with blanks stripped and dropped, for the query
\* texts the model uses.
SubQueries(query_text) ==
    CASE query_text = "X" -> <<"X">>
      [] query_text = "" -> <<>>
      [] OTHER -> <<query_text>>

\* response.data of the hybrid_search RPC, in rank order.
HybridSearchRows(q) == <<"c1", "c2", "c3", "c4", "c5", "c6">>

\* Rows of match_chunks_in_docs for the documents linked from the matches.
DeepRows(q) == <<"d1", "d2", "d3", "d4">>

RECURSIVE CollectResults(_, _, _)
\* The loop over sub_queries: rows are appended unless their chunk_id is
\* already present; a failing sub-query only adds a line to the log.
CollectResults(sub_queries, backend, acc) ==
    IF sub_queries = <<>> THEN acc
    ELSE LET q == Head(sub_queries)
             rows == HybridSearchRows(q)
             fresh == SelectSeq(rows, LAMBDA r : \A i \in 1..Len(acc.all) : acc.all[i] # r)
             next == IF backend = "up"
                     THEN [all |-> acc.all \o fresh, log |-> acc.log]
                     ELSE [all |-> acc.all, log |-> Append(acc.log, <<"Error querying", q>>)]
         IN CollectResults(Tail(sub_queries), backend, next)

\* search_organizational_memory(query_text, deep_mode=True)
SearchOrganizationalMemory(query_text, backend) ==
    IF backend = "unconfigured"
    THEN [status |-> "raise", msg |-> "Missing SUPABASE_URL or SUPABASE_SERVICE_ROLE_KEY environment variables."]
    ELSE IF query_text = None
    THEN [status |-> "raise", msg |-> "'NoneType' object has no attribute 'split'"]
    ELSE IF backend = "hung" /\ SubQueries(query_text.v) # <<>>
    THEN [status |-> "hang"]
    ELSE LET sub_queries == SubQueries(query_text.v)
             got == CollectResults(sub_queries, backend, [all |-> <<>>, log |-> <<>>])
         IN IF got.all = <<>>
            THEN [status |-> "return",
                  value |-> [results |-> <<>>, deep_results |-> <<>>, log |-> got.log]]
            ELSE [status |-> "return",
                  value |-> [results |-> got.all,
                             deep_results |-> DeepRows(query_text.v),
                             log |-> got.log]]

(***************************************************************************)
(* The RPC dispatcher, process_rpc_request lines 87-206: from the parsed   *)
(* request to the response (a sequence: <<>> is Python's None).            *)
(***************************************************************************)
ResultEnvelope(rpc_id, result) == [jsonrpc |-> "2.0", id |-> rpc_id, result |-> result]
\* Variant: every protocol error is reported as "invalid request".
ErrorEnvelopeInvalidRequest(rpc_id, code, message) ==
    [jsonrpc |-> "2.0", id |-> rpc_id, error |-> [code |-> -32600, message |-> message]]

ErrorEnvelope(rpc_id, code, message) ==
    [jsonrpc |-> "2.0", id |-> rpc_id, error |-> [code |-> code, message |-> message]]

MethodNotFound == -32601

InitializeResult ==
    [protocolVersion |-> "2024-11-05",
     capabilities |-> [tools |-> EmptyDict],
     serverInfo |-> [name |-> "ragon-manual", version |-> "1.0.0"]]

ToolsListResult ==
    [tools |-> << [name |-> "search_knowledge_base",
                   inputSchema |-> [type |-> "object", required |-> <<"query">>]] >>]

\* How a run of the dispatcher ends; collab tells what the collaborator did:
\* "none" (not called), "returned", "raised" or "hung".
Returned(response, collab) == [kind |-> "returned", response |-> response, collab |-> collab]
Raised == [kind |-> "raised", response |-> <<>>, collab |-> "none"]
Hung == [kind |-> "hung", response |-> <<>>, collab |-> "hung"]

\* Variant: a failing collaborator is reported as a JSON-RPC error object.
SearchKnowledgeBaseProtocolError(rpc_id, args, backend) ==
    IF ~IsDict(args)
    THEN Returned(<<ErrorEnvelope(rpc_id, MethodNotFound, "object has no attribute 'get'")>>,
                  "none")
    ELSE LET r == SearchOrganizationalMemory(Get(args, "query", None), backend)
         IN CASE r.status = "hang" -> Hung
              [] r.status = "raise" ->
                   Returned(<<ErrorEnvelope(rpc_id, MethodNotFound, r.msg)>>, "raised")
              [] OTHER ->
                   Returned(<<ResultEnvelope(rpc_id,
                                [content |-> <<[type |-> "text",
                                                text |-> JsonDumps(r.value)]>>,
                                 isError |-> FALSE])>>, "returned")

\* The try/except of lines 142-181.
SearchKnowledgeBase(rpc_id, args, backend) ==
    IF ~IsDict(args)
    THEN \* args.get raises inside the try
         Returned(<<ResultEnvelope(rpc_id,
                      [content |-> <<[type |-> "text",
                                      text |-> [Error |-> "object has no attribute 'get'"]]>>,
                       isError |-> TRUE])>>, "none")
    ELSE LET query == Get(args, "query", None)
             r == SearchOrganizationalMemory(query, backend)
         IN CASE r.status = "hang" -> Hung
              [] r.status = "raise" ->
                   Returned(<<ResultEnvelope(rpc_id,
                                [content |-> <<[type |-> "text", text |-> [Error |-> r.msg]]>>,
                                 isError |-> TRUE])>>, "raised")
              [] OTHER ->
                   LET output_data ==
                           [summary |-> Len(r.value.results),
                            matches |-> Take(r.value.results, 5),
                            deep_insights |-> Take(r.value.deep_results, 3)]
                   IN Returned(<<ResultEnvelope(rpc_id,
                                   [content |-> <<[type |-> "text",
                                                   text |-> JsonDumps(output_data)]>>,
                                    isError |-> FALSE])>>, "returned")

ToolsCall(rpc_id, params, backend) ==
    IF ~IsDict(params) THEN Raised      \* params.get on None
    ELSE LET tool_name == Get(params, "name", None)
             args == Get(params, "arguments", EmptyDict)
         IN IF tool_name = JStr("search_knowledge_base")
            THEN SearchKnowledgeBase(rpc_id, args, backend)
            ELSE Returned(<<ErrorEnvelope(rpc_id, MethodNotFound,
                                          <<"Method", tool_name, "not found">>)>>, "none")

\* Variant: notifications/initialized is acknowledged when it carries an id.
RpcResponseAcknowledging(request, backend) ==
    IF ~IsDict(request) THEN Raised
    ELSE LET rpc_id == Get(request, "id", None)
             method == Get(request, "method", None)
             params == Get(request, "params", EmptyDict)
         IN CASE method = JStr("initialize") ->
                    Returned(<<ResultEnvelope(rpc_id, InitializeResult)>>, "none")
              [] method = JStr("notifications/initialized") ->
                    IF rpc_id # None
                    THEN Returned(<<ResultEnvelope(rpc_id, EmptyDict)>>, "none")
                    ELSE Returned(<<>>, "none")
              [] method = JStr("tools/list") ->
                    Returned(<<ResultEnvelope(rpc_id, ToolsListResult)>>, "none")
              [] method = JStr("tools/call") ->
                    ToolsCall(rpc_id, params, backend)
              [] method = JStr("ping") ->
                    Returned(<<ResultEnvelope(rpc_id, EmptyDict)>>, "none")
              [] OTHER ->
                    IF rpc_id # None
                    THEN Returned(<<ErrorEnvelope(rpc_id, MethodNotFound,
                                                  <<"Method", method, "not found">>)>>, "none")
                    ELSE Returned(<<>>, "none")

RpcResponse(request, backend) ==
    IF ~IsDict(request) THEN Raised     \* request.get on a non-dict
    ELSE LET rpc_id == Get(request, "id", None)
             method == Get(request, "method", None)
             params == Get(request, "params", EmptyDict)
         IN CASE method = JStr("initialize") ->
                    Returned(<<ResultEnvelope(rpc_id, InitializeResult)>>, "none")
              [] method = JStr("notifications/initialized") ->
                    Returned(<<>>, "none")
              [] method = JStr("tools/list") ->
                    Returned(<<ResultEnvelope(rpc_id, ToolsListResult)>>, "none")
              [] method = JStr("tools/call") ->
                    ToolsCall(rpc_id, params, backend)
              [] method = JStr("ping") ->
                    Returned(<<ResultEnvelope(rpc_id, EmptyDict)>>, "none")
              [] OTHER ->
                    IF rpc_id # None
                    THEN Returned(<<ErrorEnvelope(rpc_id, MethodNotFound,
                                                  <<"Method", method, "not found">>)>>, "none")
                    ELSE Returned(<<>>, "none")

(***************************************************************************)
(* Inputs.                                                                 *)
(***************************************************************************)
\* Request ids the clients use; a request may also carry no id at all.
RpcIds == {"r1"}

IdFields == {<<>>} \cup { "id" :> JStr(i) : i \in RpcIds }

\* The params member of a tools/call: absent, null, or an object.
ToolsCallParams ==
    { <<>>,
      "params" :> None,
      "params" :> JObj("name" :> JStr("search_knowledge_base")
                       @@ "arguments" :> JObj("query" :> JStr("X"))),
      "params" :> JObj("name" :> JStr("search_knowledge_base")),
      "params" :> JObj("name" :> JStr("nonexistent")) }

PlainMethods ==
    {"initialize", "notifications/initialized", "tools/list", "ping", "resources/list"}

Envelopes ==
    { JObj("jsonrpc" :> JStr("2.0") @@ "method" :> JStr(m) @@ idf) :
          m \in PlainMethods, idf \in IdFields }
    \cup
    { JObj("jsonrpc" :> JStr("2.0") @@ "method" :> JStr("tools/call") @@ idf @@ pf) :
          idf \in IdFields, pf \in ToolsCallParams }

\* A POST body: text that parses to an envelope, text that parses to a JSON
\* value that is no object, or text that is not JSON.
MalformedBody == [valid |-> FALSE]
Bodies ==
    { [valid |-> TRUE, json |-> e] : e \in Envelopes }
    \cup {[valid |-> TRUE, json |-> JStr("ping")]}
    \cup {MalformedBody}

\* Variant: text that is not JSON is taken for an empty object.
RequestJsonLenient(body) == IF body.valid THEN <<body.json>> ELSE <<EmptyDict>>

\* await request.json(): <<payload>>, or <<>> when it raises.
RequestJson(body) == IF body.valid THEN <<body.json>> ELSE <<>>

\* The session_id query parameter of a POST.
SessionParams == {NoSessionId} \cup (1..MaxSessions)

(***************************************************************************)
(* State.                                                                  *)
(***************************************************************************)
VARIABLES
    CLIENT_QUEUES,  \* the registry: session id -> contents of its asyncio.Queue
    issued,         \* number of uuid4() identities generated so far
    gen,            \* session id -> position of its event_generator
    emitted,        \* session id -> frames yielded on its SSE stream
    tasks,          \* dispatch tasks created by create_task and not yet run
    blocked,        \* TRUE when the event loop is stuck in a collaborator call
    reading,        \* the POSTs suspended in await request.json()
    posts,          \* history: every POST /messages, the status it was answered
                    \* (0 while unanswered) and, once accepted, the parsed envelope
    done,           \* history: every finished dispatch task and how it ended
    enqueued        \* history: session id -> every item put on its queue

vars == <<CLIENT_QUEUES, issued, gen, emitted, reading, tasks, blocked, posts, done, enqueued>>

\* Variant: the same identity is produced every time.
Uuid4Repeating(n) == 1

\* str(uuid.uuid4()): an identity never produced before.
Uuid4(n) == n + 1

\* Variant: only the presence of the parameter is tested.
SessionKnownPresenceOnly(session_id, queues) ==
    session_id # NoSessionId

\* session_id in CLIENT_QUEUES, after the "not session_id" test (line 66).
SessionKnown(session_id, queues) ==
    session_id # NoSessionId /\ session_id \in DOMAIN queues

\* Variant: one queue shared by all sessions (the first registered one).
QueuePutShared(queues, session_id, item) ==
    LET k == CHOOSE k \in DOMAIN queues : \A j \in DOMAIN queues : k <= j
    IN [queues EXCEPT ![k] = Append(@, item)]

\* await queue.put(response) on the queue found under session_id (lines 84, 210).
QueuePut(queues, session_id, item) ==
    [queues EXCEPT ![session_id] = Append(@, item)]

\* Variant: the newest item is taken first.
QueueGetNewest(q) == [data |-> q[Len(q)], rest |-> SubSeq(q, 1, Len(q) - 1)]

\* data = await queue.get(): the oldest item, and what stays queued.
QueueGet(q) == [data |-> Head(q), rest |-> Tail(q)]

\* Variant: the finally clause leaves the registry alone.
PopNothing(queues, session_id) == queues

\* CLIENT_QUEUES.pop(session_id, None)
Pop(queues, session_id) ==
    [k \in DOMAIN queues \ {session_id} |-> queues[k]]

\* Variant: the advertised address carries no session identity.
EndpointFrameNoSession(session_id) ==
    [event |-> "endpoint", data |-> [path |-> "/messages", session_id |-> NoSessionId]]

\* The first frame (lines 40-41).
EndpointFrame(session_id) ==
    [event |-> "endpoint", data |-> [path |-> "/messages", session_id |-> session_id]]

\* A message frame (line 50); req is the history tag of the queue item.
MessageFrame(item) ==
    [event |-> "message", data |-> JsonDumps(item.data), req |-> item.req]

Init ==
    /\ CLIENT_QUEUES = <<>>
    /\ issued = 0
    /\ gen = <<>>
    /\ emitted = <<>>
    /\ reading = {}
    /\ tasks = {}
    /\ blocked = FALSE
    /\ posts = <<>>
    /\ done = {}
    /\ enqueued = <<>>

(***************************************************************************)
(* GET /sse, lines 26-28 and 57: the session is registered and the         *)
(* response object is returned; the generator body has not run yet.        *)
(***************************************************************************)
HandleSse ==
    /\ ~blocked
    /\ issued < MaxSessions
    /\ LET session_id == Uuid4(issued) IN
        /\ CLIENT_QUEUES' = (session_id :> <<>>) @@ CLIENT_QUEUES
        /\ gen' = (session_id :> "created") @@ gen
        /\ emitted' = (session_id :> <<>>) @@ emitted
        /\ enqueued' = (session_id :> <<>>) @@ enqueued
    /\ issued' = issued + 1
    /\ UNCHANGED <<reading, tasks, blocked, posts, done>>

\* First resumption of event_generator: the endpoint frame is yielded.
GeneratorStart(s) ==
    /\ ~blocked
    /\ gen[s] = "created"
    /\ emitted' = [emitted EXCEPT ![s] = Append(@, EndpointFrame(s))]
    /\ gen' = [gen EXCEPT ![s] = "streaming"]
    /\ UNCHANGED <<CLIENT_QUEUES, issued, reading, tasks, blocked, posts, done, enqueued>>

\* One turn of the loop of lines 44-50: queue.get() returns an item, which
\* is yielded as a message frame, or is the shutdown signal.
GeneratorNext(s) ==
    /\ ~blocked
    /\ gen[s] = "streaming"
    /\ s \in DOMAIN CLIENT_QUEUES
    /\ CLIENT_QUEUES[s] # <<>>
    /\ LET got == QueueGet(CLIENT_QUEUES[s]) IN
        IF got.data = None
        THEN /\ CLIENT_QUEUES' = Pop(CLIENT_QUEUES, s)
             /\ gen' = [gen EXCEPT ![s] = "closed"]
             /\ UNCHANGED emitted
        ELSE /\ CLIENT_QUEUES' = [CLIENT_QUEUES EXCEPT ![s] = got.rest]
             /\ emitted' = [emitted EXCEPT ![s] = Append(@, MessageFrame(got.data))]
             /\ UNCHANGED gen
    /\ UNCHANGED <<issued, reading, tasks, blocked, posts, done, enqueued>>

\* Variant: the disconnect also cancels the tasks addressed to the session.
DisconnectCancelling(s) ==
    /\ ~blocked
    /\ gen[s] = "streaming"
    /\ CLIENT_QUEUES' = Pop(CLIENT_QUEUES, s)
    /\ gen' = [gen EXCEPT ![s] = "closed"]
    /\ tasks' = { t \in tasks : t.session_id # s }
    /\ UNCHANGED <<issued, emitted, reading, blocked, posts, done, enqueued>>

\* The client disconnects while the generator is suspended (at a yield or
\* in queue.get()): CancelledError or GeneratorExit unwinds it through the
\* finally clause of lines 54-55.
Disconnect(s) ==
    /\ ~blocked
    /\ gen[s] = "streaming"
    /\ CLIENT_QUEUES' = Pop(CLIENT_QUEUES, s)
    /\ gen' = [gen EXCEPT ![s] = "closed"]
    /\ UNCHANGED <<issued, emitted, reading, tasks, blocked, posts, done, enqueued>>

\* The connection ends before the response body is first iterated: the
\* generator object never starts, so its try/finally never runs.
DisconnectBeforeStart(s) ==
    /\ ~blocked
    /\ gen[s] = "created"
    /\ gen' = [gen EXCEPT ![s] = "abandoned"]
    /\ UNCHANGED <<CLIENT_QUEUES, issued, emitted, reading, tasks, blocked, posts, done, enqueued>>

(***************************************************************************)
(* POST /messages, lines 64-78.  The handler has one suspension point,     *)
(* await request.json(): the session check runs when the request arrives,  *)
(* the rest once the body has been read.                                   *)
(***************************************************************************)
\* Lines 64-67: the session check.
HandleMessages(session_id) ==
    /\ ~blocked
    /\ Len(posts) < MaxPosts
    /\ IF ~SessionKnown(session_id, CLIENT_QUEUES)
       THEN /\ posts' = Append(posts, [session_id |-> session_id, body |-> "unread",
                                       status |-> 400, request |-> <<>>])
            /\ UNCHANGED reading
       ELSE /\ posts' = Append(posts, [session_id |-> session_id, body |-> "unread",
                                       status |-> 0, request |-> <<>>])
            /\ reading' = reading \cup {Len(posts) + 1}
    /\ UNCHANGED <<CLIENT_QUEUES, issued, gen, emitted, tasks, blocked, done, enqueued>>

\* History tag of a body that was read: whether it was JSON at all.
BodyKind(body) == IF body.valid THEN "valid" ELSE "invalid"

\* Variant: the handler awaits the dispatch, so the 202 is held back until
\* the dispatch has completed.
HandleMessagesBodyAwaiting(n, body) ==
    /\ ~blocked
    /\ n \in reading
    /\ reading' = reading \ {n}
    /\ LET payload == RequestJson(body) IN
        IF payload = <<>>
        THEN /\ posts' = [posts EXCEPT ![n].body = BodyKind(body), ![n].status = 400]
             /\ UNCHANGED tasks
        ELSE /\ tasks' = tasks \cup {[session_id |-> posts[n].session_id,
                                       request |-> payload[1], req |-> n]}
             /\ posts' = [posts EXCEPT ![n].body = BodyKind(body), ![n].request = payload]
    /\ UNCHANGED <<CLIENT_QUEUES, issued, gen, emitted, blocked, done, enqueued>>

\* Lines 69-78: the body of POST number n has been read.
HandleMessagesBody(n, body) ==
    /\ ~blocked
    /\ n \in reading
    /\ reading' = reading \ {n}
    /\ LET payload == RequestJson(body) IN
        IF payload = <<>>
        THEN /\ posts' = [posts EXCEPT ![n].body = BodyKind(body), ![n].status = 400]
             /\ UNCHANGED tasks
        ELSE /\ tasks' = tasks \cup {[session_id |-> posts[n].session_id,
                                       request |-> payload[1], req |-> n]}
             /\ posts' = [posts EXCEPT ![n].body = BodyKind(body), ![n].status = 202,
                                       ![n].request = payload]
    /\ UNCHANGED <<CLIENT_QUEUES, issued, gen, emitted, blocked, done, enqueued>>

(***************************************************************************)
(* One dispatch task, process_rpc_request lines 80-210.                    *)
(***************************************************************************)
Finished(t, outcome, collab, backend) ==
    [req |-> t.req, outcome |-> outcome, collab |-> collab,
     backend |-> IF collab = "none" THEN "-" ELSE backend]

ProcessRpcRequest(t, backend) ==
    /\ ~blocked
    /\ t \in tasks
    /\ IF t.session_id \notin DOMAIN CLIENT_QUEUES
       THEN /\ tasks' = tasks \ {t}
            /\ done' = done \cup {Finished(t, "no_session", "none", backend)}
            /\ UNCHANGED <<CLIENT_QUEUES, enqueued, blocked>>
       ELSE LET r == RpcResponse(t.request, backend) IN
            CASE r.kind = "hung" ->
                    /\ blocked' = TRUE
                    /\ UNCHANGED <<CLIENT_QUEUES, enqueued, tasks, done>>
              [] r.kind = "raised" ->
                    /\ tasks' = tasks \ {t}
                    /\ done' = done \cup {Finished(t, "raised", r.collab, backend)}
                    /\ UNCHANGED <<CLIENT_QUEUES, enqueued, blocked>>
              [] OTHER ->
                    /\ tasks' = tasks \ {t}
                    /\ UNCHANGED blocked
                    /\ IF r.response # <<>>
                       THEN LET item == [data |-> r.response[1], req |-> t.req] IN
                            /\ CLIENT_QUEUES' = QueuePut(CLIENT_QUEUES, t.session_id, item)
                            /\ enqueued' = [enqueued EXCEPT ![t.session_id] = Append(@, item)]
                            /\ done' = done \cup {Finished(t, "enqueued", r.collab, backend)}
                       ELSE /\ done' = done \cup {Finished(t, "silent", r.collab, backend)}
                            /\ UNCHANGED <<CLIENT_QUEUES, enqueued>>
    /\ UNCHANGED <<issued, gen, emitted, reading, posts>>

Next ==
    \/ HandleSse
    \/ \E s \in DOMAIN gen : GeneratorStart(s)
    \/ \E s \in DOMAIN gen : GeneratorNext(s)
    \/ \E s \in DOMAIN gen : Disconnect(s)
    \/ \E s \in DOMAIN gen : DisconnectBeforeStart(s)
    \/ \E session_id \in SessionParams : HandleMessages(session_id)
    \/ \E n \in reading, body \in Bodies : HandleMessagesBody(n, body)
    \/ \E t \in tasks, backend \in Backends : ProcessRpcRequest(t, backend)

Spec == Init /\ [][Next]_vars

(***************************************************************************)
(* Vocabulary of the properties.                                           *)
(***************************************************************************)
Sessions == DOMAIN gen

Last(seq) == seq[Len(seq)]

\* The envelope of POST number n (accepted POSTs only).
EnvelopeOf(n) == posts[n].request[1]
RpcIdOf(n) == IF IsDict(EnvelopeOf(n)) THEN Get(EnvelopeOf(n), "id", None) ELSE None
MethodOf(n) == IF IsDict(EnvelopeOf(n)) THEN Get(EnvelopeOf(n), "method", None) ELSE None

\* The message frames of a stream, in the order they were emitted.
Messages(s) == SelectSeq(emitted[s], LAMBDA f : f.event = "message")

\* The items ever put on the queue of session s for POST number n.
EnqueuedFor(s, n) == SelectSeq(enqueued[s], LAMBDA item : item.req = n)

\* Number of items ever put on any queue for POST number n.
RECURSIVE SumOver(_, _)
SumOver(S, n) ==
    IF S = {} THEN 0
    ELSE LET s == CHOOSE x \in S : TRUE
         IN Len(EnqueuedFor(s, n)) + SumOver(S \ {s}, n)
EnqueuedAnywhere(n) == SumOver(Sessions, n)

\* This step is the arrival of a POST /messages.
IsPost == Len(posts') = Len(posts) + 1

(***************************************************************************)
(* C1 - Session isolation: every message frame emitted on the stream of a  *)
(* session S, and every item waiting on S's queue, answers a request that  *)
(* was POSTed (and accepted) with session_id = S.                          *)
(***************************************************************************)
C1_SessionIsolation ==
    \A s \in Sessions :
        /\ \A i \in 1..Len(emitted[s]) :
              emitted[s][i].event = "message" =>
                  /\ emitted[s][i].req \in 1..Len(posts)
                  /\ posts[emitted[s][i].req].status = 202
                  /\ posts[emitted[s][i].req].session_id = s
        /\ s \in DOMAIN CLIENT_QUEUES =>
              \A i \in 1..Len(CLIENT_QUEUES[s]) :
                  posts[CLIENT_QUEUES[s][i].req].session_id = s

\* Two streams have each delivered the answer to a request of their own.
C1_Witness ==
    \E s, t \in Sessions :
        /\ s # t
        /\ Messages(s) # <<>>
        /\ Messages(t) # <<>>

(***************************************************************************)
(* C2 - FIFO per session: the message frames emitted on a stream are, at   *)
(* every moment, a prefix of the items put on that session's queue, in the *)
(* same order.                                                             *)
(***************************************************************************)
C2_FifoPrefix ==
    \A s \in Sessions :
        /\ Len(Messages(s)) <= Len(enqueued[s])
        /\ \A i \in 1..Len(Messages(s)) :
              /\ Messages(s)[i].req = enqueued[s][i].req
              /\ Messages(s)[i].data = [json |-> enqueued[s][i].data]

\* Two answers were waiting on one queue together and both have been
\* emitted.
C2_Witness ==
    \E s \in Sessions :
        /\ Len(Messages(s)) = 2
        /\ Messages(s)[1].req # Messages(s)[2].req
        /\ Messages(s)[1].data # Messages(s)[2].data

(***************************************************************************)
(* C3 - every accepted tools/call that carries an id, whatever its params, *)
(* whose task has ended with the session still registered, has put exactly *)
(* one envelope bearing that id on the originating session's queue.        *)
(***************************************************************************)
C3_ToolsCallAnsweredOnce ==
    \A d \in done :
        (/\ MethodOf(d.req) = JStr("tools/call")
         /\ RpcIdOf(d.req) # None
         /\ d.outcome # "no_session")
        => /\ Len(EnqueuedFor(posts[d.req].session_id, d.req)) = 1
           /\ EnqueuedFor(posts[d.req].session_id, d.req)[1].data.id = RpcIdOf(d.req)
           /\ EnqueuedAnywhere(d.req) = 1

(***************************************************************************)
(* C4 - every accepted envelope with a non-null id, whatever its method,   *)
(* whose task has ended with the session still registered, has put exactly *)
(* one terminal response (result or error) on the originating session's    *)
(* queue.                                                                  *)
(***************************************************************************)
C4_RequestAnsweredOnce ==
    \A d \in done :
        (RpcIdOf(d.req) # None /\ d.outcome # "no_session")
        => /\ Len(EnqueuedFor(posts[d.req].session_id, d.req)) = 1
           /\ LET env == EnqueuedFor(posts[d.req].session_id, d.req)[1].data
              IN ("result" \in DOMAIN env) # ("error" \in DOMAIN env)

(***************************************************************************)
(* C5 - a notification never receives a response: the task of an accepted  *)
(* envelope without id, whatever its method, puts nothing on any queue.    *)
(***************************************************************************)
C5_NotificationUnanswered ==
    \A d \in done :
        RpcIdOf(d.req) = None => EnqueuedAnywhere(d.req) = 0

(***************************************************************************)
(* C6 - a POST whose session_id is missing or is not a registered session  *)
(* is answered 400 and causes no dispatch: no task is created, no queue    *)
(* changes, nothing is dispatched and the collaborator is not called.      *)
(***************************************************************************)
C6_UnknownSessionRejected ==
    [][ (/\ IsPost
         /\ \/ Last(posts').session_id = NoSessionId
            \/ Last(posts').session_id \notin DOMAIN CLIENT_QUEUES)
        => /\ Last(posts').status = 400
           /\ Last(posts').body = "unread"
           /\ UNCHANGED <<reading, tasks, CLIENT_QUEUES, enqueued, done, blocked>> ]_vars

\* Both kinds of bad address were rejected at the session check while some
\* session was registered.
C6_Witness ==
    /\ CLIENT_QUEUES # <<>>
    /\ \E n \in 1..Len(posts) :
          /\ posts[n].body = "unread" /\ posts[n].status = 400
          /\ posts[n].session_id = NoSessionId
    /\ \E n \in 1..Len(posts) :
          /\ posts[n].body = "unread" /\ posts[n].status = 400
          /\ posts[n].session_id # NoSessionId

(***************************************************************************)
(* C7 - once a session's stream has closed after streaming began, its id   *)
(* stays out of the registry for ever and every POST that arrives later    *)
(* with that id is answered 400.                                           *)
(***************************************************************************)
C7_ClosedSessionStaysGone ==
    [][ \A s \in Sessions :
          gen[s] = "closed" =>
              /\ gen'[s] = "closed"
              /\ s \notin DOMAIN CLIENT_QUEUES'
              /\ (IsPost /\ Last(posts').session_id = s) => Last(posts').status = 400 ]_vars

\* A session accepted a request, was disconnected, and then refused a
\* request at the session check.
C7_Witness ==
    \E s \in Sessions :
        /\ gen[s] = "closed"
        /\ \E m, n \in 1..Len(posts) :
              /\ m < n
              /\ posts[m].session_id = s /\ posts[m].status = 202
              /\ posts[n].session_id = s /\ posts[n].status = 400
              /\ posts[n].body = "unread"

(***************************************************************************)
(* C8 - session destruction on every exit path: no session stays           *)
(* registered after its connection has ended, whenever after registration  *)
(* the connection ended.                                                   *)
(***************************************************************************)
C8_DestroyedOnEveryExit ==
    \A s \in Sessions :
        gen[s] \in {"closed", "abandoned"} => s \notin DOMAIN CLIENT_QUEUES

(***************************************************************************)
(* C9 - on every stream the first frame is the endpoint event whose data   *)
(* is /messages?session_id=<id of that stream's session>, and every later  *)
(* frame is a message event.                                               *)
(***************************************************************************)
C9_EndpointFirstAndOnce ==
    \A s \in Sessions :
        /\ gen[s] \in {"streaming", "closed"} => emitted[s] # <<>>
        /\ emitted[s] # <<>> =>
              /\ emitted[s][1].event = "endpoint"
              /\ emitted[s][1].data = [path |-> "/messages", session_id |-> s]
              /\ \A i \in 2..Len(emitted[s]) : emitted[s][i].event = "message"

\* A stream that has emitted its endpoint frame and a message frame, while
\* another session exists.
C9_Witness ==
    \E s, t \in Sessions :
        /\ s # t
        /\ Len(emitted[s]) >= 2
        /\ emitted[t] # <<>>

(***************************************************************************)
(* C10 - when the collaborator raises during a tools/call of               *)
(* search_knowledge_base, the enqueued response is a result envelope (no   *)
(* error member) with isError = true, a text item carrying the exception's *)
(* message, and the id of the request.                                     *)
(***************************************************************************)
C10_CollaboratorFailureIsResult ==
    \A d \in done :
        d.collab = "raised" =>
            LET s == posts[d.req].session_id
                params == Get(EnvelopeOf(d.req), "params", EmptyDict)
                query == Get(Get(params, "arguments", EmptyDict), "query", None)
            IN /\ Len(EnqueuedFor(s, d.req)) = 1
               /\ LET env == EnqueuedFor(s, d.req)[1].data
                  IN /\ "result" \in DOMAIN env
                     /\ "error" \notin DOMAIN env
                     /\ env.id = RpcIdOf(d.req)
                     /\ env.result.isError = TRUE
                     /\ \E i \in 1..Len(env.result.content) :
                           /\ env.result.content[i].type = "text"
                           /\ env.result.content[i].text =
                                [Error |-> SearchOrganizationalMemory(query, d.backend).msg]

\* The collaborator raised for a request that carried an id, both for a
\* failing backend configuration and for a missing query.
C10_Witness ==
    /\ \E d \in done :
          d.collab = "raised" /\ d.backend = "unconfigured" /\ RpcIdOf(d.req) # None
    /\ \E d \in done :
          d.collab = "raised" /\ d.backend = "up"

(***************************************************************************)
(* C11 - a tools/call whose params.name is not the registered tool (the    *)
(* name may be absent) is answered by an error envelope with code -32601   *)
(* and the request's id, without result member, and the collaborator is    *)
(* not called.                                                             *)
(***************************************************************************)
ParamsOf(n) == Get(EnvelopeOf(n), "params", EmptyDict)
ToolNameOf(n) == IF IsDict(ParamsOf(n)) THEN Get(ParamsOf(n), "name", None) ELSE None

C11_UnknownToolIsError ==
    \A d \in done :
        (/\ MethodOf(d.req) = JStr("tools/call")
         /\ ToolNameOf(d.req) # JStr("search_knowledge_base")
         /\ d.outcome # "no_session")
        => /\ d.collab = "none"
           /\ Len(EnqueuedFor(posts[d.req].session_id, d.req)) = 1
           /\ LET env == EnqueuedFor(posts[d.req].session_id, d.req)[1].data
              IN /\ "error" \in DOMAIN env
                 /\ "result" \notin DOMAIN env
                 /\ env.error.code = -32601
                 /\ env.id = RpcIdOf(d.req)

(***************************************************************************)
(* C12 - an envelope whose method is none of the five known ones: with an  *)
(* id, exactly one error envelope with code -32601 and that id is put on   *)
(* the originating session's queue; without id, nothing is put on any      *)
(* queue.                                                                  *)
(***************************************************************************)
KnownMethods ==
    { JStr(m) : m \in {"initialize", "notifications/initialized", "tools/list",
                       "tools/call", "ping"} }

C12_UnknownMethod ==
    \A d \in done :
        (/\ IsDict(EnvelopeOf(d.req))
         /\ MethodOf(d.req) \notin KnownMethods
         /\ d.outcome # "no_session")
        => IF RpcIdOf(d.req) # None
           THEN /\ EnqueuedAnywhere(d.req) = 1
                /\ Len(EnqueuedFor(posts[d.req].session_id, d.req)) = 1
                /\ LET env == EnqueuedFor(posts[d.req].session_id, d.req)[1].data
                   IN /\ "error" \in DOMAIN env
                      /\ env.error.code = -32601
                      /\ env.id = RpcIdOf(d.req)
           ELSE EnqueuedAnywhere(d.req) = 0

\* Both an unknown request and an unknown notification have been dispatched
\* on a registered session.
C12_Witness ==
    \E d, e \in done :
        /\ IsDict(EnvelopeOf(d.req)) /\ IsDict(EnvelopeOf(e.req))
        /\ MethodOf(d.req) \notin KnownMethods /\ MethodOf(e.req) \notin KnownMethods
        /\ RpcIdOf(d.req) # None /\ d.outcome = "enqueued"
        /\ RpcIdOf(e.req) = None /\ e.outcome = "silent"

(***************************************************************************)
(* C13 - dispatching notifications/initialized never puts anything on any  *)
(* queue, whether the envelope carries an id or not.                       *)
(***************************************************************************)
C13_InitializedIsSilent ==
    \A d \in done :
        MethodOf(d.req) = JStr("notifications/initialized") =>
            /\ EnqueuedAnywhere(d.req) = 0
            /\ d.outcome \in {"silent", "no_session"}

\* notifications/initialized was dispatched on registered sessions, once
\* with an id and once without.
C13_Witness ==
    \E d, e \in done :
        /\ MethodOf(d.req) = JStr("notifications/initialized")
        /\ MethodOf(e.req) = JStr("notifications/initialized")
        /\ RpcIdOf(d.req) # None /\ d.outcome = "silent"
        /\ RpcIdOf(e.req) = None /\ e.outcome = "silent"

(***************************************************************************)
(* C14 - the POST handler does not wait for the dispatch: the 202 is given *)
(* in the step that creates the task, in which nothing is dispatched; a    *)
(* task that has not run, or that hangs in the collaborator, belongs to a  *)
(* POST already answered 202; and running a task changes no answer.        *)
(***************************************************************************)
C14_AckWithoutWaiting ==
    [][ /\ \A t \in tasks' : posts'[t.req].status = 202
        /\ \A n \in 1..Len(posts) :
              (posts[n].status = 0 /\ posts'[n].status = 202) =>
                  /\ \E t \in tasks' \ tasks : t.req = n
                  /\ UNCHANGED <<CLIENT_QUEUES, enqueued, done, blocked>>
        /\ (done' # done \/ blocked' # blocked) => posts' = posts ]_vars

\* The only task is stuck in a collaborator call that never returns: its
\* POST was answered 202 and no response for it exists.
C14_Witness ==
    /\ blocked
    /\ Cardinality(tasks) = 1
    /\ \A t \in tasks :
          /\ posts[t.req].status = 202
          /\ EnqueuedAnywhere(t.req) = 0

(***************************************************************************)
(* C16 - a POST with a registered session id whose body is not JSON is     *)
(* answered 400; no task is created, nothing is put on any queue, and the  *)
(* registry and all queues are unchanged.                                  *)
(***************************************************************************)
C16_MalformedBodyRejected ==
    [][ \A n \in reading :
          (n \notin reading' /\ posts'[n].body = "invalid") =>
              /\ posts'[n].status = 400
              /\ posts'[n].request = <<>>
              /\ UNCHANGED <<tasks, CLIENT_QUEUES, enqueued, done, blocked, gen, emitted>> ]_vars

\* A malformed body was rejected on a session that is registered, while a
\* well-formed one was accepted on the same session.
C16_Witness ==
    \E m, n \in 1..Len(posts) :
        /\ posts[n].body = "invalid" /\ posts[n].status = 400
        /\ posts[n].session_id \in DOMAIN CLIENT_QUEUES
        /\ posts[m].session_id = posts[n].session_id
        /\ posts[m].status = 202

(***************************************************************************)
(* C15 - a hung collaborator call blocks nothing else: while one call      *)
(* never returns, every other pending request can still be dispatched,     *)
(* every stream handler with a waiting item can still emit it, and new     *)
(* GET /sse and POST /messages are still served.                           *)
(***************************************************************************)
C15_HungCallBlocksNothing ==
    blocked =>
        /\ Cardinality(tasks) >= 2 =>
              \E t \in tasks : ENABLED ProcessRpcRequest(t, "up")
        /\ \A s \in Sessions :
              (/\ gen[s] = "streaming"
               /\ s \in DOMAIN CLIENT_QUEUES
               /\ CLIENT_QUEUES[s] # <<>>) => ENABLED GeneratorNext(s)
        /\ issued < MaxSessions => ENABLED HandleSse
        /\ Len(posts) < MaxPosts => ENABLED HandleMessages(NoSessionId)

(***************************************************************************)
(* C17 - a disconnect cancels no dispatch task, and a task that runs after *)
(* its session was destroyed ends without raising, puts its response       *)
(* nowhere, changes no stream and leaves the registry as it is; its        *)
(* response never shows up on any queue or stream.                         *)
(***************************************************************************)
NowhereVisible(n) ==
    /\ \A s \in Sessions :
          /\ \A i \in 1..Len(enqueued[s]) : enqueued[s][i].req # n
          /\ \A i \in 1..Len(emitted[s]) :
                emitted[s][i].event = "message" => emitted[s][i].req # n
    /\ \A s \in DOMAIN CLIENT_QUEUES :
          \A i \in 1..Len(CLIENT_QUEUES[s]) : CLIENT_QUEUES[s][i].req # n

C17_LateResultDiscarded ==
    [][ /\ (\E s \in Sessions : gen[s] = "streaming" /\ gen'[s] = "closed")
              => tasks' = tasks
        /\ \A t \in tasks \ tasks' :
              gen[t.session_id] = "closed" =>
                  /\ \E d \in done' \ done : d.req = t.req /\ d.outcome = "no_session"
                  /\ UNCHANGED <<CLIENT_QUEUES, enqueued, emitted, gen, blocked>>
        /\ \A d \in done : d.outcome = "no_session" => NowhereVisible(d.req)' ]_vars

\* A search request with an id was accepted, its session was disconnected,
\* the task ran afterwards, and a session opened later is streaming.
C17_Witness ==
    \E d \in done :
        /\ d.outcome = "no_session"
        /\ gen[posts[d.req].session_id] = "closed"
        /\ MethodOf(d.req) = JStr("tools/call")
        /\ ToolNameOf(d.req) = JStr("search_knowledge_base")
        /\ RpcIdOf(d.req) # None
        /\ \E s \in Sessions : s > posts[d.req].session_id /\ gen[s] = "streaming"

(***************************************************************************)
(* C18 - when the retrieval backend is unreachable during a tools/call of  *)
(* search_knowledge_base (every embedding / hybrid_search call fails), the *)
(* enqueued response is a success envelope with result.isError = TRUE.     *)
(***************************************************************************)
C18_UnreachableIsErrorResult ==
    \A d \in done :
        (d.backend = "unreachable" /\ d.collab = "returned" /\ d.outcome = "enqueued") =>
            LET s == posts[d.req].session_id
            IN \A i \in 1..Len(EnqueuedFor(s, d.req)) :
                  LET env == EnqueuedFor(s, d.req)[i].data
                  IN /\ "result" \in DOMAIN env
                     /\ env.result.isError = TRUE

(***************************************************************************)
(* The event loop runs every ready coroutine in turn, so a generator that  *)
(* can be started or resumed is not postponed forever: weak fairness of    *)
(* the stream handler's two steps.                                         *)
(***************************************************************************)
FairSpec ==
    /\ Spec
    /\ \A s \in 1..MaxSessions :
          /\ WF_vars(s \in DOMAIN gen /\ GeneratorStart(s))
          /\ WF_vars(s \in DOMAIN gen /\ GeneratorNext(s))

(***************************************************************************)
(* C20 - delivery liveness: on a session whose stream stays connected, the *)
(* k-th event put on the queue is eventually the k-th message frame of the *)
(* stream; it is lost only if the stream closes.                           *)
(***************************************************************************)
C20_EnqueuedEventuallyEmitted ==
    \A s \in 1..MaxSessions : \A k \in 1..MaxPosts :
        (s \in Sessions /\ Len(enqueued[s]) >= k)
            ~> (/\ s \in Sessions
                /\ \/ gen[s] \in {"closed", "abandoned"}
                   \/ /\ Len(Messages(s)) >= k
                      /\ Messages(s)[k].req = enqueued[s][k].req)

(***************************************************************************)
(* C21 - registry frame: the set of registered session ids changes only by *)
(* a stream open, which adds exactly one id that is not registered and was *)
(* never registered before, with an empty queue, and by the close of a     *)
(* stream, which removes exactly that stream's id.  POST handling and RPC  *)
(* dispatch of any method add and remove no session and leave the queue of *)
(* every session other than the addressed one as it is.                    *)
(***************************************************************************)
Registered == DOMAIN CLIENT_QUEUES

OthersUntouched(S) ==
    \A s \in Registered \ S : s \in Registered' /\ CLIENT_QUEUES'[s] = CLIENT_QUEUES[s]

C21_RegistryFrame ==
    [][ /\ Registered' # Registered =>
              \/ /\ issued' # issued
                 /\ \E id \in Registered' \ Registered :
                       /\ id \notin Sessions
                       /\ Registered' = Registered \cup {id}
              \/ \E s \in Registered :
                    /\ gen[s] = "streaming" /\ gen'[s] = "closed"
                    /\ Registered' = Registered \ {s}
        /\ issued' # issued =>
              /\ \E id \in Registered' \ Registered :
                    /\ id \notin Sessions
                    /\ Registered' = Registered \cup {id}
                    /\ CLIENT_QUEUES'[id] = <<>>
              /\ OthersUntouched({})
        /\ (posts' # posts \/ reading' # reading) => CLIENT_QUEUES' = CLIENT_QUEUES
        /\ (tasks' # tasks \/ done' # done \/ blocked' # blocked) =>
              /\ Registered' = Registered
              /\ \A t \in tasks \ tasks' : OthersUntouched({t.session_id})
              /\ tasks' = tasks => CLIENT_QUEUES' = CLIENT_QUEUES ]_vars

\* Session 1 was opened and closed, session 2 was opened afterwards and is
\* registered, and two initialize requests were dispatched on session 2.
C21_Witness ==
    /\ Sessions = {1, 2}
    /\ gen[1] = "closed"
    /\ Registered = {2}
    /\ Len(enqueued[2]) = 2
    /\ \A i \in 1..2 : MethodOf(enqueued[2][i].req) = JStr("initialize")
    /\ enqueued[2][1].req # enqueued[2][2].req

====
